---- MODULE Spec2Model ----
(***************************************************************************)
(* Model of emergency.cpp: an Emergency holds five double severity fields  *)
(* and an ordered response plan of Situations (Firefighters, Medics,       *)
(* RescueTeam, DelayedResponse); activate() lets every Situation of the    *)
(* plan respond once, in order.                                            *)
(*                                                                         *)
(* The fields are C++ doubles.  They are modelled as IEEE-754 binary64     *)
(* values: every arithmetic operation of the source is computed exactly    *)
(* and then rounded to nearest, ties to even, to a 53-bit significand      *)
(* (gradual underflow included).  TLC's integers are 32 bits wide, so      *)
(* significands are kept as sequences of 15-bit limbs.                     *)
(***************************************************************************)
EXTENDS Integers, Sequences, FiniteSets, TLC

(***************************************************************************)
(* Natural numbers of any size: little-endian sequences of limbs, the     *)
(* most significant limb non-zero, zero being the empty sequence.         *)
(***************************************************************************)
LimbBits == 15
LimbBase == 2 ^ LimbBits

Max(a, b) == IF a >= b THEN a ELSE b
Min(a, b) == IF a <= b THEN a ELSE b

RECURSIVE BNorm(_)
BNorm(a) ==
  IF a = <<>> THEN a
  ELSE IF a[Len(a)] = 0 THEN BNorm(SubSeq(a, 1, Len(a) - 1))
  ELSE a

RECURSIVE BFromNat(_)
BFromNat(n) ==
  IF n = 0 THEN <<>> ELSE <<n % LimbBase>> \o BFromNat(n \div LimbBase)

RECURSIVE BAddC(_, _, _)
BAddC(a, b, c) ==
  IF a = <<>> /\ b = <<>> THEN (IF c = 0 THEN <<>> ELSE <<c>>)
  ELSE LET x == IF a = <<>> THEN 0 ELSE Head(a)
           y == IF b = <<>> THEN 0 ELSE Head(b)
           s == x + y + c
       IN <<s % LimbBase>> \o BAddC(IF a = <<>> THEN a ELSE Tail(a),
                                    IF b = <<>> THEN b ELSE Tail(b),
                                    s \div LimbBase)

BAdd(a, b) == BAddC(a, b, 0)

\* a - b for a >= b
RECURSIVE BSubB(_, _, _)
BSubB(a, b, c) ==
  IF a = <<>> THEN <<>>
  ELSE LET y == IF b = <<>> THEN 0 ELSE Head(b)
           d == Head(a) - y - c
       IN <<IF d < 0 THEN d + LimbBase ELSE d>>
          \o BSubB(Tail(a), IF b = <<>> THEN b ELSE Tail(b),
                   IF d < 0 THEN 1 ELSE 0)

BSub(a, b) == BNorm(BSubB(a, b, 0))

\* a * d + c for one limb d
RECURSIVE BMulLimb(_, _, _)
BMulLimb(a, d, c) ==
  IF a = <<>> THEN (IF c = 0 THEN <<>> ELSE <<c>>)
  ELSE LET p == Head(a) * d + c
       IN <<p % LimbBase>> \o BMulLimb(Tail(a), d, p \div LimbBase)

RECURSIVE BMul(_, _)
BMul(a, b) ==
  IF a = <<>> \/ b = <<>> THEN <<>>
  ELSE LET rest == BMul(a, Tail(b))
       IN BNorm(BAdd(BMulLimb(a, Head(b), 0),
                     IF rest = <<>> THEN rest ELSE <<0>> \o rest))

\* -1, 0, 1 as a < b, a = b, a > b
RECURSIVE BCmpFrom(_, _, _)
BCmpFrom(a, b, i) ==
  IF i = 0 THEN 0
  ELSE IF a[i] < b[i] THEN -1
  ELSE IF a[i] > b[i] THEN 1
  ELSE BCmpFrom(a, b, i - 1)

BCmp(a, b) ==
  IF Len(a) < Len(b) THEN -1
  ELSE IF Len(a) > Len(b) THEN 1
  ELSE BCmpFrom(a, b, Len(a))

RECURSIVE LimbBitLen(_)
LimbBitLen(x) == IF x = 0 THEN 0 ELSE 1 + LimbBitLen(x \div 2)

BBitLen(a) ==
  IF a = <<>> THEN 0 ELSE (Len(a) - 1) * LimbBits + LimbBitLen(a[Len(a)])

BShl(a, k) ==
  IF a = <<>> THEN a
  ELSE [i \in 1..(k \div LimbBits) |-> 0] \o BMulLimb(a, 2 ^ (k % LimbBits), 0)

BShr(a, k) ==
  LET q == k \div LimbBits
      r == k % LimbBits
      n == Len(a) - q
  IN IF n <= 0 THEN <<>>
     ELSE BNorm([i \in 1..n |->
                  (a[i + q] \div (2 ^ r))
                  + (IF i + q + 1 <= Len(a)
                     THEN (a[i + q + 1] % (2 ^ r)) * (2 ^ (LimbBits - r))
                     ELSE 0)])

\* bit i of a, bit 0 the least significant
BBit(a, i) ==
  IF i < 0 \/ i \div LimbBits + 1 > Len(a) THEN 0
  ELSE (a[i \div LimbBits + 1] \div (2 ^ (i % LimbBits))) % 2

\* whether the k lowest bits of a are all zero
BLowBitsZero(a, k) ==
  LET q == k \div LimbBits
      r == k % LimbBits
  IN /\ \A i \in 1..Min(q, Len(a)) : a[i] = 0
     /\ (q + 1 > Len(a) \/ a[q + 1] % (2 ^ r) = 0)

RECURSIVE BTrailingZeros(_, _)
BTrailingZeros(a, i) == IF BBit(a, i) = 1 THEN i ELSE BTrailingZeros(a, i + 1)

\* quotient and remainder of a by one limb d > 0, from the top limb down
RECURSIVE BDivLimbFrom(_, _, _, _)
BDivLimbFrom(a, d, i, rem) ==
  IF i = 0 THEN [q |-> <<>>, r |-> rem]
  ELSE LET cur == rem * LimbBase + a[i]
           lower == BDivLimbFrom(a, d, i - 1, cur % d)
       IN [q |-> lower.q \o <<cur \div d>>, r |-> lower.r]

BDivLimb(a, d) ==
  LET qr == BDivLimbFrom(a, d, Len(a), 0) IN [q |-> BNorm(qr.q), r |-> qr.r]

(***************************************************************************)
(* double: the value (-1)^s * m * 2^e, with m odd (or zero, e = 0) and at  *)
(* most MantissaBits bits long, e >= MinExponent.  Overflow to infinity    *)
(* and NaN do not arise: every magnitude here stays far below 2^1024.      *)
(***************************************************************************)
MantissaBits == 53
MinExponent == -1074

DZero(s) == [s |-> s, m |-> <<>>, e |-> 0]

DCanon(s, m, e) ==
  IF m = <<>> THEN DZero(s)
  ELSE LET t == BTrailingZeros(m, 0) IN [s |-> s, m |-> BShr(m, t), e |-> e + t]

\* round (-1)^s * (M + f) * 2^E, 0 <= f < 1 and f # 0 iff sticky, to nearest,
\* ties to even
DRoundSticky(s, M, E, sticky) ==
  LET L == BBitLen(M)
      k == Max(Max(L - MantissaBits, MinExponent - E), 0)
  IN IF k = 0 THEN DCanon(s, M, E)
     ELSE LET q == BShr(M, k)
              half == BBit(M, k - 1) = 1
              low == sticky \/ ~BLowBitsZero(M, k - 1)
              up == half /\ (low \/ BBit(q, 0) = 1)
          IN DCanon(s, IF up THEN BAdd(q, <<1>>) ELSE q, E + k)

DRound(s, M, E) == DRoundSticky(s, M, E, FALSE)

\* int -> double
DInt(n) == DCanon(IF n < 0 THEN 1 ELSE 0, BFromNat(IF n < 0 THEN -n ELSE n), 0)

DNeg(x) == [x EXCEPT !.s = 1 - @]

DMul(x, y) ==
  DRound(IF x.s = y.s THEN 0 ELSE 1, BMul(x.m, y.m),
         IF x.m = <<>> \/ y.m = <<>> THEN 0 ELSE x.e + y.e)

DAdd(x, y) ==
  IF x.m = <<>> /\ y.m = <<>> THEN DZero(IF x.s = 1 /\ y.s = 1 THEN 1 ELSE 0)
  ELSE IF x.m = <<>> THEN y
  ELSE IF y.m = <<>> THEN x
  ELSE LET e == Min(x.e, y.e)
           a == BShl(x.m, x.e - e)
           b == BShl(y.m, y.e - e)
           c == BCmp(a, b)
       IN IF x.s = y.s THEN DRound(x.s, BAdd(a, b), e)
          ELSE IF c = 0 THEN DZero(0)
          ELSE IF c > 0 THEN DRound(x.s, BSub(a, b), e)
          ELSE DRound(y.s, BSub(b, a), e)

DSub(x, y) == DAdd(x, DNeg(y))

\* x / y for a divisor whose significand is one limb (2, 5, 10)
DDiv(x, y) ==
  IF x.m = <<>> THEN DZero(IF x.s = y.s THEN 0 ELSE 1)
  ELSE LET K == MantissaBits + LimbBits + 2
           qr == BDivLimb(BShl(x.m, K), y.m[1])
       IN DRoundSticky(IF x.s = y.s THEN 0 ELSE 1, qr.q, x.e - y.e - K, qr.r # 0)

\* -1, 0, 1 as x < y, x == y, x > y (the zeros compare equal)
DCmpMag(x, y) ==
  IF x.m = <<>> /\ y.m = <<>> THEN 0
  ELSE IF x.m = <<>> THEN -1
  ELSE IF y.m = <<>> THEN 1
  ELSE LET tx == x.e + BBitLen(x.m)
           ty == y.e + BBitLen(y.m)
           e == Min(x.e, y.e)
       IN IF tx < ty THEN -1
          ELSE IF tx > ty THEN 1
          ELSE BCmp(BShl(x.m, x.e - e), BShl(y.m, y.e - e))

DCmp(x, y) ==
  LET sx == IF x.m = <<>> THEN 0 ELSE IF x.s = 1 THEN -1 ELSE 1
      sy == IF y.m = <<>> THEN 0 ELSE IF y.s = 1 THEN -1 ELSE 1
  IN IF sx < sy THEN -1
     ELSE IF sx > sy THEN 1
     ELSE IF sx = 0 THEN 0
     ELSE sx * DCmpMag(x, y)

DLt(x, y) == DCmp(x, y) < 0
DLe(x, y) == DCmp(x, y) <= 0
DEq(x, y) == DCmp(x, y) = 0

\* std::min(a, b): b when b < a, else a
StdMin(a, b) == IF DLt(b, a) THEN b ELSE a

(***************************************************************************)
(* The literals of the source, as the compiler reads them.                 *)
(***************************************************************************)
Lit_0_1 == DDiv(DInt(1), DInt(10))   \* 0.1
Lit_0_2 == DDiv(DInt(1), DInt(5))    \* 0.2
Lit_1_0 == DInt(1)                   \* 1.0

(***************************************************************************)
(* Situations.  A DelayedResponse owns its inner Situation and a counter.  *)
(***************************************************************************)
Firefighters(u) == [kind |-> "Firefighters", units |-> u]
Medics(s) == [kind |-> "Medics", staff |-> s]
RescueTeam(b) == [kind |-> "RescueTeam", boats |-> b]
DelayedResponse(s, delay) ==
  [kind |-> "DelayedResponse", inner |-> s, delayRounds |-> delay,
   currentRound |-> 0]

(***************************************************************************)
(* Emergency: the five fields, their getters and setters.                  *)
(***************************************************************************)
\* two initialisers crossed: fire_damage(_flood), flood_damage(_fire)
EmergencyCtorCrossed(h, p, fi, fl, inj, plan) ==
  [health |-> h, panic_level |-> p, fire_damage |-> fl, flood_damage |-> fi,
   injury_level |-> inj, response_plan |-> plan]

EmergencyCtor(h, p, fi, fl, inj, plan) ==
  [health |-> h, panic_level |-> p, fire_damage |-> fi, flood_damage |-> fl,
   injury_level |-> inj, response_plan |-> plan]

getHealth(e) == e.health
setHealth(e, h) == [e EXCEPT !.health = h]
getPanic(e) == e.panic_level
setPanic(e, p) == [e EXCEPT !.panic_level = p]
getFireDamage(e) == e.fire_damage
setFireDamage(e, f) == [e EXCEPT !.fire_damage = f]
getFloodDamage(e) == e.flood_damage
setFloodDamage(e, f) == [e EXCEPT !.flood_damage = f]
getInjuryLevel(e) == e.injury_level
setInjuryLevel(e, i) == [e EXCEPT !.injury_level = i]

(***************************************************************************)
(* respond.  Each returns the Emergency after the call, the Situation      *)
(* after the call, and the respond calls made (outermost first) with what  *)
(* each computed.  One operator per statement of the source.               *)
(***************************************************************************)
Responded(e, self, calls) == [e |-> e, self |-> self, calls |-> calls]

ConcreteCall(kind, count, effect) ==
  [kind |-> kind, count |-> count, effect |-> effect]

\* the cap forgotten: double impact = units * 0.1;
FirefightersImpactUncapped(units) == DMul(DInt(units), Lit_0_1)

\* double impact = std::min(units * 0.1, 1.0);
FirefightersImpact(units) == StdMin(DMul(DInt(units), Lit_0_1), Lit_1_0)

\* a sign slip: e.getFireDamage() * (1 + impact)
FirefightersFireAmplified(e, impact) ==
  setFireDamage(e, DMul(getFireDamage(e), DAdd(DInt(1), impact)))

\* e.setFireDamage(e.getFireDamage() * (1 - impact));
FirefightersFire(e, impact) ==
  setFireDamage(e, DMul(getFireDamage(e), DSub(DInt(1), impact)))

\* the halving forgotten: e.getPanic() * (1 - impact)
FirefightersPanicFull(e, impact) ==
  setPanic(e, DMul(getPanic(e), DSub(DInt(1), impact)))

\* e.setPanic(e.getPanic() * (1 - impact / 2));
FirefightersPanic(e, impact) ==
  setPanic(e, DMul(getPanic(e), DSub(DInt(1), DDiv(impact, DInt(2)))))

FirefightersEffect(e, impact) ==
  FirefightersPanic(FirefightersFire(e, impact), impact)

FirefightersCalled(self, e, impact) ==
  Responded(FirefightersEffect(e, impact), self,
            <<ConcreteCall(self.kind, self.units, impact)>>)

FirefightersRespond(self, e) ==
  FirefightersCalled(self, e, FirefightersImpact(self.units))

\* double heal = std::min(staff * 0.2, 1.0);
MedicsHeal(staff) == StdMin(DMul(DInt(staff), Lit_0_2), Lit_1_0)

\* the complement forgotten: e.getInjuryLevel() * heal
MedicsInjuryScaled(e, heal) ==
  setInjuryLevel(e, DMul(getInjuryLevel(e), heal))

\* e.setInjuryLevel(e.getInjuryLevel() * (1 - heal));
MedicsInjury(e, heal) ==
  setInjuryLevel(e, DMul(getInjuryLevel(e), DSub(DInt(1), heal)))

\* a sign slip: e.getHealth() - heal * 100
MedicsHealthDrained(e, heal) ==
  setHealth(e, DSub(getHealth(e), DMul(heal, DInt(100))))

\* e.setHealth(e.getHealth() + heal * 100);
MedicsHealth(e, heal) ==
  setHealth(e, DAdd(getHealth(e), DMul(heal, DInt(100))))

MedicsEffect(e, heal) == MedicsHealth(MedicsInjury(e, heal), heal)

MedicsCalled(self, e, heal) ==
  Responded(MedicsEffect(e, heal), self,
            <<ConcreteCall(self.kind, self.staff, heal)>>)

MedicsRespond(self, e) == MedicsCalled(self, e, MedicsHeal(self.staff))

\* the cap forgotten: double effect = boats * 0.1;
RescueTeamFractionUncapped(boats) == DMul(DInt(boats), Lit_0_1)

\* double effect = std::min(boats * 0.1, 1.0);
RescueTeamEffectFraction(boats) ==
  StdMin(DMul(DInt(boats), Lit_0_1), Lit_1_0)

\* e.setFloodDamage(e.getFloodDamage() * (1 - effect));
RescueTeamFlood(e, effect) ==
  setFloodDamage(e, DMul(getFloodDamage(e), DSub(DInt(1), effect)))

\* e.setPanic(e.getPanic() * (1 - effect));
RescueTeamPanic(e, effect) ==
  setPanic(e, DMul(getPanic(e), DSub(DInt(1), effect)))

RescueTeamEffect(e, effect) ==
  RescueTeamPanic(RescueTeamFlood(e, effect), effect)

RescueTeamCalled(self, e, effect) ==
  Responded(RescueTeamEffect(e, effect), self,
            <<ConcreteCall(self.kind, self.boats, effect)>>)

RescueTeamRespond(self, e) ==
  RescueTeamCalled(self, e, RescueTeamEffectFraction(self.boats))

RECURSIVE Respond(_, _)

DelayedCall(self, round, forwarded) ==
  [kind |-> self.kind, round |-> round, forwarded |-> forwarded]

\* inner->respond(e) has returned r
DelayedForwarded(counted, r) ==
  Responded(r.e, [counted EXCEPT !.inner = r.self],
            <<DelayedCall(counted, counted.currentRound, TRUE)>> \o r.calls)

\* an off-by-one: if (++currentRound > delayRounds)
DelayedTestStrict(counted, e) ==
  IF counted.currentRound > counted.delayRounds
  THEN DelayedForwarded(counted, Respond(counted.inner, e))
  ELSE Responded(e, counted,
                 <<DelayedCall(counted, counted.currentRound, FALSE)>>)

\* if (++currentRound >= delayRounds) with the counter already advanced
DelayedTest(counted, e) ==
  IF counted.currentRound >= counted.delayRounds
  THEN DelayedForwarded(counted, Respond(counted.inner, e))
  ELSE Responded(e, counted,
                 <<DelayedCall(counted, counted.currentRound, FALSE)>>)

\* the counter stays far below INT_MAX here
DelayedResponseRespond(self, e) ==
  DelayedTest([self EXCEPT !.currentRound = self.currentRound + 1], e)

\* the virtual call s->respond(e)
Respond(self, e) ==
  CASE self.kind = "Firefighters" -> FirefightersRespond(self, e)
    [] self.kind = "Medics" -> MedicsRespond(self, e)
    [] self.kind = "RescueTeam" -> RescueTeamRespond(self, e)
    [] self.kind = "DelayedResponse" -> DelayedResponseRespond(self, e)

\* for (auto *s : response_plan) s->respond(*this);
RECURSIVE ActivateFrom(_, _, _, _)

\* a loop that stops at a DelayedResponse that did not forward
ActivateStepBreaks(i, e, plan, calls, r) ==
  IF r.calls[Len(r.calls)].kind = "DelayedResponse"
  THEN [e |-> r.e, plan |-> [plan EXCEPT ![i] = r.self],
        log |-> Append(calls, [idx |-> i, pre |-> e, post |-> r.e,
                               calls |-> r.calls])]
  ELSE ActivateFrom(i + 1, r.e, [plan EXCEPT ![i] = r.self],
                    Append(calls, [idx |-> i, pre |-> e, post |-> r.e,
                                   calls |-> r.calls]))

\* plan[i] has responded with r
ActivateStep(i, e, plan, calls, r) ==
  ActivateFrom(i + 1, r.e, [plan EXCEPT ![i] = r.self],
               Append(calls, [idx |-> i, pre |-> e, post |-> r.e,
                              calls |-> r.calls]))

ActivateFrom(i, e, plan, calls) ==
  IF i > Len(plan) THEN [e |-> e, plan |-> plan, log |-> calls]
  ELSE ActivateStep(i, e, plan, calls, Respond(plan[i], e))

(***************************************************************************)
(* Bounds and the constructor arguments tried.                             *)
(***************************************************************************)
MaxActivations == 3
MaxCount == 11
MaxDeficit == 2
MaxDelay == 3

Counts == (-MaxDeficit)..MaxCount
Delays == (-1)..MaxDelay
Kinds == {"Firefighters", "Medics", "RescueTeam"}

Concrete(k, n) ==
  CASE k = "Firefighters" -> Firefighters(n)
    [] k = "Medics" -> Medics(n)
    [] k = "RescueTeam" -> RescueTeam(n)

DPow2(k) == [s |-> 0, m |-> <<1>>, e |-> k]

\* <<health, panic, fire, flood, injury>>
InitialValues ==
  { <<DInt(70), DInt(40), DInt(60), DInt(50), DInt(30)>>,
    <<DInt(0), DInt(0), DInt(0), DInt(0), DInt(0)>>,
    <<DInt(-70), DInt(-40), DInt(-60), DInt(-50), DInt(-30)>>,
    <<DPow2(MinExponent), DPow2(MinExponent), DPow2(MinExponent),
      DPow2(MinExponent), DPow2(MinExponent)>>,
    <<DPow2(60), DInt(40), DInt(60), DInt(50), DInt(30)>> }

Plans ==
  { <<Concrete(k, n)>> : k \in Kinds, n \in Counts }
  \cup { <<DelayedResponse(Concrete(k, n), d)>> :
           k \in Kinds, d \in Delays, n \in {5} }
  \cup { <<>>,
         <<Firefighters(5), Medics(3), RescueTeam(2)>>,
         <<Firefighters(0), Medics(0), RescueTeam(0)>>,
         <<Firefighters(20), Medics(10), RescueTeam(20)>>,
         <<DelayedResponse(Firefighters(5), 2)>>,
         <<DelayedResponse(Medics(0), 1)>>,
         <<DelayedResponse(Firefighters(5), 3), Medics(3), RescueTeam(2)>>,
         <<Medics(1), DelayedResponse(RescueTeam(2), 2), Firefighters(1)>>,
         <<DelayedResponse(DelayedResponse(Firefighters(5), 2), 2)>> }

(***************************************************************************)
(* State.  The five fields and the plan are the Emergency's members.       *)
(* ctor holds the constructor's arguments, passes counts the activate()    *)
(* calls made, prev holds the members before the last activate(), log the  *)
(* respond calls the last activate() made, and read what the getters       *)
(* returned if a caller has read the fields back since the last call of    *)
(* the constructor or of activate().                                       *)
(***************************************************************************)
VARIABLES health, panic_level, fire_damage, flood_damage, injury_level,
          response_plan, ctor, passes, prev, log, read

vars == <<health, panic_level, fire_damage, flood_damage, injury_level,
          response_plan, ctor, passes, prev, log, read>>

\* *this
This ==
  [health |-> health, panic_level |-> panic_level, fire_damage |-> fire_damage,
   flood_damage |-> flood_damage, injury_level |-> injury_level]

Fields(obj) ==
  [health |-> obj.health, panic_level |-> obj.panic_level,
   fire_damage |-> obj.fire_damage, flood_damage |-> obj.flood_damage,
   injury_level |-> obj.injury_level]

Constructed(obj, args) ==
  /\ ctor = args
  /\ health = obj.health
  /\ panic_level = obj.panic_level
  /\ fire_damage = obj.fire_damage
  /\ flood_damage = obj.flood_damage
  /\ injury_level = obj.injury_level
  /\ response_plan = obj.response_plan
  /\ passes = 0
  /\ prev = [e |-> Fields(obj), plan |-> obj.response_plan]
  /\ log = <<>>
  /\ read = <<>>

\* Emergency e(health, panic, fire, flood, injury, plan);
Init ==
  \E v \in InitialValues, plan \in Plans :
    Constructed(EmergencyCtor(v[1], v[2], v[3], v[4], v[5], plan),
                [health |-> v[1], panic |-> v[2], fire |-> v[3],
                 flood |-> v[4], injury |-> v[5], plan |-> plan])

\* the members after activate() has run the loop with result r
Activated(r) ==
  /\ health' = r.e.health
  /\ panic_level' = r.e.panic_level
  /\ fire_damage' = r.e.fire_damage
  /\ flood_damage' = r.e.flood_damage
  /\ injury_level' = r.e.injury_level
  /\ response_plan' = r.plan
  /\ log' = r.log

\* an activate() that starts over from the constructor's values
ActivateFromCtorValues ==
  /\ passes < MaxActivations
  /\ Activated(ActivateFrom(1, [health |-> ctor.health,
                                 panic_level |-> ctor.panic,
                                 fire_damage |-> ctor.fire,
                                 flood_damage |-> ctor.flood,
                                 injury_level |-> ctor.injury],
                            response_plan, <<>>))
  /\ prev' = [e |-> This, plan |-> response_plan]
  /\ passes' = passes + 1
  /\ read' = <<>>
  /\ UNCHANGED ctor

\* e.activate()
Activate ==
  /\ passes < MaxActivations
  /\ Activated(ActivateFrom(1, This, response_plan, <<>>))
  /\ prev' = [e |-> This, plan |-> response_plan]
  /\ passes' = passes + 1
  /\ read' = <<>>
  /\ UNCHANGED ctor

\* a caller reads the five fields back through the getters
ReadBack ==
  /\ read' = <<[health |-> getHealth(This),
               panic |-> getPanic(This), fire |-> getFireDamage(This),
               flood |-> getFloodDamage(This),
               injury |-> getInjuryLevel(This)]>>
  /\ read' # read
  /\ UNCHANGED <<health, panic_level, fire_damage, flood_damage, injury_level,
                 response_plan, ctor, passes, prev, log>>

Next == Activate \/ ReadBack

Spec == Init /\ [][Next]_vars

(***************************************************************************)
(* Helpers of the properties below.                                        *)
(***************************************************************************)
FieldNames ==
  {"health", "panic_level", "fire_damage", "flood_damage", "injury_level"}
DamageNames == FieldNames \ {"health"}

LastCall(entry) == entry.calls[Len(entry.calls)]

\* the log entries in which a Firefighters, Medics or RescueTeam ran
ConcreteEntries == {i \in 1..Len(log) : LastCall(log[i]).kind \in Kinds}

SameFields(a, b) == \A f \in FieldNames : DEq(a[f], b[f])

RECURSIVE Shape(_)
Shape(s) ==
  IF s.kind = "DelayedResponse"
  THEN [s EXCEPT !.currentRound = 0, !.inner = Shape(s.inner)]
  ELSE s

RECURSIVE CountersZero(_)
CountersZero(s) ==
  s.kind = "DelayedResponse" => s.currentRound = 0 /\ CountersZero(s.inner)

CountOf(s) ==
  CASE s.kind = "Firefighters" -> s.units
    [] s.kind = "Medics" -> s.staff
    [] s.kind = "RescueTeam" -> s.boats

RECURSIVE LeafCount(_)
LeafCount(s) ==
  IF s.kind = "DelayedResponse" THEN LeafCount(s.inner) ELSE CountOf(s)

CtorFields ==
  [health |-> ctor.health, panic_level |-> ctor.panic,
   fire_damage |-> ctor.fire, flood_damage |-> ctor.flood,
   injury_level |-> ctor.injury]

\* the table of the specification, section 4.2, in double arithmetic
TableFraction(kind, count) ==
  LET rate == IF kind = "Medics" THEN Lit_0_2 ELSE Lit_0_1
      raw == DMul(DInt(count), rate)
  IN IF DLt(Lit_1_0, raw) THEN Lit_1_0 ELSE raw

TableEffect(kind, count, pre) ==
  LET effect == TableFraction(kind, count)
      rest == DSub(Lit_1_0, effect)
  IN CASE kind = "Firefighters" ->
            [pre EXCEPT !.fire_damage = DMul(@, rest),
                        !.panic_level =
                          DMul(@, DSub(Lit_1_0, DDiv(effect, DInt(2))))]
       [] kind = "Medics" ->
            [pre EXCEPT !.injury_level = DMul(@, rest),
                        !.health = DAdd(@, DMul(effect, DInt(100)))]
       [] kind = "RescueTeam" ->
            [pre EXCEPT !.flood_damage = DMul(@, rest),
                        !.panic_level = DMul(@, rest)]

RECURSIVE TableTimes(_, _, _, _)
TableTimes(k, kind, count, pre) ==
  IF k = 0 THEN pre
  ELSE TableTimes(k - 1, kind, count, TableEffect(kind, count, pre))

\* a normal double: at least 2^-1022 in magnitude
MinNormalExponent == MinExponent + MantissaBits - 1
IsNormal(x) == x.m # <<>> /\ x.e + BBitLen(x.m) - 1 >= MinNormalExponent
Positive(x) == DLt(DZero(0), x)

(***************************************************************************)
(* C1.  DelayedResponse(inner, N), N any integer: the k-th respond call    *)
(* advances the counter to k and forwards to inner.respond exactly when    *)
(* k >= N.  A call with k < N changes none of the five fields and leaves   *)
(* inner alone; a call with k >= N has exactly the effect of               *)
(* inner.respond.  (A DelayedResponse of the plan is called once per       *)
(* activate(), so k = passes; forwarding from pass N on for ever is then   *)
(* "never dormant again".)                                                 *)
(***************************************************************************)
C1_DelayedForwardsFromThreshold ==
  \A i \in 1..Len(log) :
    prev.plan[i].kind = "DelayedResponse" =>
      LET before == prev.plan[i]
          after == response_plan[i]
          entry == log[i]
          inner == Respond(before.inner, entry.pre)
      IN /\ after.currentRound = before.currentRound + 1
         /\ after.currentRound = passes
         /\ entry.calls[1].kind = "DelayedResponse"
         /\ entry.calls[1].forwarded = (passes >= before.delayRounds)
         /\ passes < before.delayRounds =>
              /\ entry.post = entry.pre
              /\ Len(entry.calls) = 1
              /\ after.inner = before.inner
         /\ passes >= before.delayRounds =>
              /\ entry.post = inner.e
              /\ Tail(entry.calls) = inner.calls
              /\ after.inner = inner.self

\* a DelayedResponse with threshold 2 forwards on the third call, having been
\* dormant on the first, and the forwarded call changes the fields
C1_Witness ==
  /\ passes = 3
  /\ Len(log) = 1
  /\ prev.plan[1].kind = "DelayedResponse"
  /\ prev.plan[1].delayRounds = 2
  /\ log[1].calls[1].forwarded
  /\ log[1].post # log[1].pre

(***************************************************************************)
(* C2.  Every activate() invokes respond on each action of the plan        *)
(* exactly once, in the construction order, each on the state the one      *)
(* before it left; the plan is never reordered, shortened or extended;     *)
(* and a dormant DelayedResponse does not stop the actions after it.       *)
(***************************************************************************)
C2_ActivateVisitsPlanInOrder ==
  /\ Len(response_plan) = Len(ctor.plan)
  /\ \A i \in 1..Len(ctor.plan) : Shape(response_plan[i]) = Shape(ctor.plan[i])
  /\ passes > 0 =>
       /\ Len(log) = Len(ctor.plan)
       /\ \A i \in 1..Len(log) :
            /\ log[i].idx = i
            /\ log[i].calls[1].kind = ctor.plan[i].kind
            /\ log[i].pre = (IF i = 1 THEN prev.e ELSE log[i - 1].post)
       /\ This = (IF Len(log) = 0 THEN prev.e ELSE log[Len(log)].post)

\* a dormant DelayedResponse at the head of a plan, and the two actions after
\* it invoked in the same pass
C2_Witness ==
  /\ passes = 1
  /\ Len(log) = 3
  /\ log[1].calls[1].kind = "DelayedResponse"
  /\ ~log[1].calls[1].forwarded
  /\ log[2].post # log[2].pre
  /\ log[3].post # log[3].pre

(***************************************************************************)
(* C3.  As claimed: the effect fraction every Firefighters, Medics or      *)
(* RescueTeam computes is at least 0 and at most 1, for every integer      *)
(* resource count, negative counts included.                               *)
(***************************************************************************)
C3_Original_FractionInUnitInterval ==
  \A i \in ConcreteEntries :
    /\ DLe(DZero(0), LastCall(log[i]).effect)
    /\ DLe(LastCall(log[i]).effect, Lit_1_0)

(***************************************************************************)
(* C3, amended.  The fraction is at most 1 for every count and at least 0  *)
(* for every count >= 0; for a negative count it is negative (the std::min *)
(* caps it from above only).                                               *)
(***************************************************************************)
C3_FractionCappedAbove ==
  \A i \in ConcreteEntries :
    LET call == LastCall(log[i])
    IN /\ DLe(call.effect, Lit_1_0)
       /\ call.count >= 0 => DLe(DZero(0), call.effect)
       /\ call.count < 0 => DLt(call.effect, DZero(0))

\* a count above the cap has run, with fraction exactly 1
C3_Witness ==
  \E i \in ConcreteEntries :
    /\ LastCall(log[i]).count > 10
    /\ LastCall(log[i]).kind = "Firefighters"
    /\ DEq(LastCall(log[i]).effect, Lit_1_0)

(***************************************************************************)
(* C4.  With resource count 0, respond of Firefighters, Medics and         *)
(* RescueTeam leaves all five fields at their values, and any number of    *)
(* activate() calls on a plan of zero-count actions only leaves the state  *)
(* at the constructor's values.                                            *)
(***************************************************************************)
C4_ZeroCountIsIdentity ==
  /\ \A i \in ConcreteEntries :
       LastCall(log[i]).count = 0 => SameFields(log[i].post, log[i].pre)
  /\ (\A i \in 1..Len(ctor.plan) :
        ctor.plan[i].kind \in Kinds /\ CountOf(ctor.plan[i]) = 0)
       => SameFields(This, CtorFields)

\* the plan Firefighters(0), Medics(0), RescueTeam(0) activated twice on
\* non-zero values
C4_Witness ==
  /\ passes = 2
  /\ Len(ctor.plan) = 3
  /\ \A i \in 1..3 : ctor.plan[i].kind \in Kinds /\ CountOf(ctor.plan[i]) = 0
  /\ \A f \in FieldNames : CtorFields[f].m # <<>>

(***************************************************************************)
(* C5.  For every count n >= 10, one respond of Firefighters(n) leaves     *)
(* fireDamage exactly 0 and one respond of RescueTeam(n) leaves            *)
(* floodDamage exactly 0, whatever the field held and whatever n.          *)
(***************************************************************************)
C5_FullCountZeroesDamage ==
  \A i \in ConcreteEntries :
    LET call == LastCall(log[i])
    IN /\ (call.kind = "Firefighters" /\ call.count >= 10)
            => DEq(log[i].post.fire_damage, DZero(0))
       /\ (call.kind = "RescueTeam" /\ call.count >= 10)
            => DEq(log[i].post.flood_damage, DZero(0))

\* RescueTeam with more than 10 boats has run on a non-zero floodDamage
C5_Witness ==
  \E i \in ConcreteEntries :
    /\ LastCall(log[i]).kind = "RescueTeam"
    /\ LastCall(log[i]).count > 10
    /\ log[i].pre.flood_damage.m # <<>>

(***************************************************************************)
(* C6.  More resources never make things worse: on a pre-state with        *)
(* non-negative fields, for counts m <= n of the same action, one respond  *)
(* with n leaves each damage field and panic <= what m leaves, and health  *)
(* >= what m leaves.  Each respond that ran (count n, result post) is      *)
(* compared with the respond of every other count on the same pre-state.   *)
(***************************************************************************)
C6_MoreResourcesNeverWorse ==
  \A i \in ConcreteEntries :
    (\A f \in FieldNames : DLe(DZero(0), log[i].pre[f])) =>
      \A m \in Counts :
        LET n == LastCall(log[i]).count
            other == Respond(Concrete(LastCall(log[i]).kind, m), log[i].pre).e
            more == IF m <= n THEN log[i].post ELSE other
            less == IF m <= n THEN other ELSE log[i].post
        IN /\ \A f \in DamageNames : DLe(more[f], less[f])
           /\ DLe(less.health, more.health)

\* Medics(3) has run on positive values: it leaves less injury and more
\* health than Medics(2) would
C6_Witness ==
  \E i \in ConcreteEntries :
    /\ LastCall(log[i]).kind = "Medics"
    /\ LastCall(log[i]).count = 3
    /\ \A f \in FieldNames : Positive(log[i].pre[f])
    /\ DLt(log[i].post.injury_level,
           Respond(Medics(2), log[i].pre).e.injury_level)
    /\ DLt(Respond(Medics(2), log[i].pre).e.health, log[i].post.health)

(***************************************************************************)
(* C7.  As claimed: one respond of a concrete action produces the          *)
(* post-state of the specification's table, and in particular              *)
(* Firefighters(5) takes fireDamage 60 to 30 and panic 40 to 30, Medics(3) *)
(* takes health 70 to 130 and injuryLevel 30 to 12, RescueTeam(2) takes    *)
(* floodDamage 50 to 40 and panic 40 to 32.                                *)
(***************************************************************************)
C7_Examples(injuryAfterMedics3) ==
  \A i \in ConcreteEntries :
    LET call == LastCall(log[i])
        pre == log[i].pre
        post == log[i].post
    IN /\ (call.kind = "Firefighters" /\ call.count = 5
           /\ pre.fire_damage = DInt(60) /\ pre.panic_level = DInt(40))
            => post.fire_damage = DInt(30) /\ post.panic_level = DInt(30)
       /\ (call.kind = "Medics" /\ call.count = 3
           /\ pre.health = DInt(70) /\ pre.injury_level = DInt(30))
            => post.health = DInt(130)
               /\ post.injury_level = injuryAfterMedics3
       /\ (call.kind = "RescueTeam" /\ call.count = 2
           /\ pre.flood_damage = DInt(50) /\ pre.panic_level = DInt(40))
            => post.flood_damage = DInt(40) /\ post.panic_level = DInt(32)

C7_Table ==
  \A i \in ConcreteEntries :
    log[i].post = TableEffect(LastCall(log[i]).kind, LastCall(log[i]).count,
                              log[i].pre)

C7_Original_TableAndExamples == C7_Table /\ C7_Examples(DInt(12))

(***************************************************************************)
(* C7, amended.  The post-state is the table's with every operation        *)
(* rounded to double; the examples hold as claimed except that Medics(3)   *)
(* takes injuryLevel 30 to 12 - 2^-48 (11.999999999999996), because        *)
(* 3 * 0.2 is 0.6000000000000001 in double.                                *)
(***************************************************************************)
C7_TableInDoubles ==
  C7_Table /\ C7_Examples(DSub(DInt(12), DPow2(-48)))

\* Medics(3) has run on health 70 and injuryLevel 30
C7_Witness ==
  \E i \in ConcreteEntries :
    /\ LastCall(log[i]).kind = "Medics"
    /\ LastCall(log[i]).count = 3
    /\ log[i].pre.health = DInt(70)
    /\ log[i].pre.injury_level = DInt(30)
    /\ DLt(log[i].post.injury_level, DInt(12))

(***************************************************************************)
(* C8.  The state persists between activate() calls.  For a plan of one    *)
(* undelayed action the state after k calls is the table's effect applied  *)
(* k times to the constructor's values (Firefighters(5): fireDamage 60,    *)
(* 30, 15), and when 0 < e < 1 a touched damage field that started at      *)
(* v > 0 differs after the second call from its value after the first.     *)
(* requireNormal says whether the difference is claimed for normal v only. *)
(***************************************************************************)
C8_TouchedDamage(kind) ==
  CASE kind = "Firefighters" -> "fire_damage"
    [] kind = "Medics" -> "injury_level"
    [] kind = "RescueTeam" -> "flood_damage"

C8_Compounds(requireNormal) ==
  (Len(ctor.plan) = 1 /\ ctor.plan[1].kind \in Kinds) =>
    LET kind == ctor.plan[1].kind
        count == CountOf(ctor.plan[1])
        e == TableFraction(kind, count)
        f == C8_TouchedDamage(kind)
        v == CtorFields[f]
    IN /\ This = TableTimes(passes, kind, count, CtorFields)
       /\ (kind = "Firefighters" /\ count = 5 /\ v = DInt(60)) =>
            /\ passes = 1 => fire_damage = DInt(30)
            /\ passes = 2 => fire_damage = DInt(15)
       /\ (/\ passes = 2
           /\ Positive(e) /\ DLt(e, Lit_1_0)
           /\ Positive(v)
           /\ requireNormal => IsNormal(v))
            => /\ This[f] = DMul(DMul(v, DSub(Lit_1_0, e)), DSub(Lit_1_0, e))
               /\ prev.e[f] = DMul(v, DSub(Lit_1_0, e))
               /\ ~DEq(This[f], prev.e[f])

C8_Original_SecondCallDiffers == C8_Compounds(FALSE)

(***************************************************************************)
(* C8, amended.  As claimed, the difference between the first and second   *)
(* call being claimed for a normal double v (v >= 2^-1022): a subnormal v  *)
(* such as 2^-1074 is left where it is by v*(1-e).                         *)
(***************************************************************************)
C8_CompoundsOnNormalValues == C8_Compounds(TRUE)

\* Firefighters(5) activated twice on fireDamage 60
C8_Witness ==
  /\ passes = 2
  /\ ctor.plan = <<Firefighters(5)>>
  /\ ctor.fire = DInt(60)
  /\ fire_damage = DInt(15)
  /\ prev.e.fire_damage = DInt(30)

(***************************************************************************)
(* C9.  Before any activate(), the getters return the constructor's        *)
(* arguments, whatever they and the plan are; the constructor invokes no   *)
(* action and advances no DelayedResponse counter.                         *)
(***************************************************************************)
C9_ConstructionRoundTrip ==
  /\ passes = 0 =>
       /\ getHealth(This) = ctor.health
       /\ getPanic(This) = ctor.panic
       /\ getFireDamage(This) = ctor.fire
       /\ getFloodDamage(This) = ctor.flood
       /\ getInjuryLevel(This) = ctor.injury
       /\ log = <<>>
       /\ response_plan = ctor.plan
       /\ \A i \in 1..Len(response_plan) : CountersZero(response_plan[i])
  /\ (passes = 0 /\ read # <<>>) =>
       /\ read[1].health = ctor.health
       /\ read[1].panic = ctor.panic
       /\ read[1].fire = ctor.fire
       /\ read[1].flood = ctor.flood
       /\ read[1].injury = ctor.injury

\* the fields read back right after construction, with a DelayedResponse in
\* the plan and five different values
C9_Witness ==
  /\ passes = 0
  /\ read # <<>>
  /\ read[1].fire = DInt(60)
  /\ read[1].flood = DInt(50)
  /\ \E i \in 1..Len(response_plan) : response_plan[i].kind = "DelayedResponse"

(***************************************************************************)
(* C10.  Non-negative constructor values and non-negative resource counts  *)
(* (DelayedResponse wrappers allowed): every activate() leaves fireDamage, *)
(* floodDamage, injuryLevel and panic <= their values before the call and  *)
(* >= 0, and health >= its value before.  When the plan holds undelayed    *)
(* Firefighters, Medics and RescueTeam with positive counts and the        *)
(* initial values are positive, the first activate() changes each          *)
(* strictly.  requireRange restricts that to normal values, health < 2^53. *)
(***************************************************************************)
C10_HasUndelayed(kind) ==
  \E i \in 1..Len(ctor.plan) :
    ctor.plan[i].kind = kind /\ CountOf(ctor.plan[i]) > 0

C10_Monotone(requireRange) ==
  (/\ passes > 0
   /\ \A f \in FieldNames : DLe(DZero(0), CtorFields[f])
   /\ \A i \in 1..Len(ctor.plan) : LeafCount(ctor.plan[i]) >= 0) =>
    /\ \A f \in DamageNames :
         DLe(This[f], prev.e[f]) /\ DLe(DZero(0), This[f])
    /\ DLe(prev.e.health, health)
    /\ (/\ passes = 1
        /\ \A k \in Kinds : C10_HasUndelayed(k)
        /\ \A f \in FieldNames : Positive(CtorFields[f])
        /\ requireRange =>
             /\ \A f \in FieldNames : IsNormal(CtorFields[f])
             /\ DLt(ctor.health, DPow2(MantissaBits)))
         => /\ \A f \in DamageNames : DLt(This[f], prev.e[f])
            /\ DLt(prev.e.health, health)

C10_Original_StrictOnPositive == C10_Monotone(FALSE)

(***************************************************************************)
(* C10, amended.  As claimed, the strict change of the first activate()    *)
(* being claimed for initial values that are normal doubles with health    *)
(* below 2^53: health 2^60 absorbs the added 60, and a subnormal damage    *)
(* such as 2^-1074 is left where it is.                                    *)
(***************************************************************************)
C10_MonotoneStrictInRange == C10_Monotone(TRUE)

\* the first activate() of Firefighters(5), Medics(3), RescueTeam(2) on the
\* values 70, 40, 60, 50, 30
C10_Witness ==
  /\ passes = 1
  /\ ctor.plan = <<Firefighters(5), Medics(3), RescueTeam(2)>>
  /\ ctor.health = DInt(70)
  /\ DLt(fire_damage, DInt(60))
  /\ DLt(DInt(70), health)

====
